---- MODULE Spec2Model ----
(***************************************************************************)
(* Search resolution with Google Custom Search key rotation                *)
(* (apps/api/src/search) and the v0/v1 search controllers                  *)
(* (apps/api/src/controllers).                                             *)
(*                                                                         *)
(* Two specifications share this module:                                   *)
(*   Spec     concurrent search() / googleCustomSearch() calls sharing     *)
(*            the module-level rotation index currentKeyIndex;             *)
(*   SpecCtl  one request through the v1 or v0 searchController.           *)
(* An action is the code a call runs between two suspension points         *)
(* (await): JavaScript runs such a segment to completion.                  *)
(***************************************************************************)
EXTENDS Integers, Sequences, FiniteSets, TLC

----------------------------------------------------------------------------
(* Bounds of the model *)

\* concurrently running search()/googleCustomSearch() calls
NumCalls == 2
\* GOOGLE_API_KEY slots modelled (the code reads ten)
KeySlots == 3
\* largest number of items one upstream search response holds
MaxItems == 1
\* largest limit a search request asks for
MaxLimit == 3

Calls == 1..NumCalls

----------------------------------------------------------------------------
(* Values *)

\* error.response?.status of a failure that carries no HTTP response
NoStatus == 0
HttpStatuses == {400, 403, 429, 500}
\* error.message: axios derives it from the status of an HTTP failure; a failure
\* without a response (network, timeout) carries a message of its own
HttpMessage(status) ==
  CASE status = 400 -> "Request failed with status code 400"
    [] status = 403 -> "Request failed with status code 403"
    [] status = 429 -> "Request failed with status code 429"
    [] OTHER -> "Request failed with status code 500"
NetMessages == {"Network Error", "socket hang up"}

\* a process.env entry: undefined or "", whitespace only, or a usable string
SlotValues == {"unset", "blank", "set"}

\* let lastError: any = null
NullError == [status |-> NoStatus, message |-> "null"]
Errors == {[status |-> s, message |-> HttpMessage(s)] : s \in HttpStatuses}
          \cup {[status |-> NoStatus, message |-> m] : m \in NetMessages}

Pending == [kind |-> "pending", n |-> 0, status |-> NoStatus, message |-> ""]

VARIABLES
  env,              \* process.env: key slots, GOOGLE_CSE_ID, SERPER_API_KEY, SEARCHAPI_API_KEY
  currentKeyIndex,  \* the module-level round-robin index
  pc,               \* where each call is suspended
  entry,            \* how each call was entered: search() or googleCustomSearch()
  invoked,          \* the providers search() invoked for each call, in order
  i,                \* the loop variable of googleCustomSearch
  lastError,        \* the local lastError of googleCustomSearch
  provOut,          \* how the provider call (googleCustomSearch or another) settled
  searchOut,        \* how search() settled
  used,             \* history: the keys each call sent upstream, in order
  settled,          \* history: upstream responses each call has received
  lastOutcome,      \* history: the error of the latest failed attempt of each call
  retryFails,       \* history: attempts of each call that failed with 400, 403 or 429
  selections        \* history: every key getNextApiKey returned, in order

searchVars == <<env, currentKeyIndex, pc, entry, invoked, i, lastError, provOut,
                searchOut, used, settled, lastOutcome, retryFails, selections>>

VARIABLES
  req,           \* the request: entry point, limit, team override, scraping wanted
  cpc,           \* where the controller is suspended
  numRequested,  \* num_results passed to search()
  serp,          \* the result list search() returned
  tasks,         \* one scrape task per result kept: state, queue calls made, Document
  resp,          \* the response sent (res.status(..).json(..))
  responses,     \* history: number of responses sent
  billUnits,     \* the unit count passed to billTeam
  billState      \* the billTeam promise: none, pending, ok, failed

ctlVars == <<req, cpc, numRequested, serp, tasks, resp, responses, billUnits, billState>>

vars == <<searchVars, ctlVars>>

----------------------------------------------------------------------------
(* google_custom_search.ts *)

RECURSIVE CollectKeys(_, _)
CollectKeys(slots, j) ==
  IF j > Len(slots) THEN <<>>
  ELSE IF slots[j] = "set" THEN <<j>> \o CollectKeys(slots, j + 1)
  ELSE CollectKeys(slots, j + 1)

\* the usable keys, each named by the number of its slot, in slot order
getAllApiKeys(e) == CollectKeys(e.keys, 1)

\* googleApiKeys[currentKeyIndex]; 0 stands for undefined
KeyAt(keys, idx) == IF idx < Len(keys) THEN keys[idx + 1] ELSE 0

AdvanceSkip(idx, len) == (idx + 2) % len
AdvanceIndex(idx, len) == (idx + 1) % len

RetryableWide(status) == status \in {400, 403, 429, 500}
Retryable(status) == status \in {400, 403, 429}

KeepFirstError(old, err) == IF old = NullError THEN err ELSE old
RecordError(old, err) == err

LoopContinuesOff(next, len) == next <= len
LoopContinues(next, len) == next < len

ExhaustedError(last) ==
  [kind |-> "exhausted", n |-> 0, status |-> last.status,
   message |-> IF last = NullError THEN "Unknown error" ELSE last.message]

ProviderError(err) ==
  [kind |-> "provider_error", n |-> 0, status |-> NoStatus, message |-> err.message]

Returned(n) == [kind |-> "returned", n |-> n, status |-> NoStatus, message |-> ""]
Thrown(kind) == [kind |-> kind, n |-> 0, status |-> NoStatus, message |-> ""]

\* getNextApiKey followed by axios.get: the call suspends at the request
Attempt(c, keys) ==
  LET key == KeyAt(keys, currentKeyIndex) IN
  /\ currentKeyIndex' = AdvanceIndex(currentKeyIndex, Len(keys))
  /\ used' = [used EXCEPT ![c] = Append(@, key)]
  /\ selections' = Append(selections, key)
  /\ pc' = [pc EXCEPT ![c] = "await_http"]

\* search(): try { return await provider(...) } catch { return [] }
SearchRethrows(out) ==
  IF out.kind = "returned" THEN [kind |-> "returned", n |-> out.n]
  ELSE [kind |-> "thrown", n |-> 0]
SearchReturn(out) ==
  IF out.kind = "returned" THEN [kind |-> "returned", n |-> out.n]
  ELSE [kind |-> "returned", n |-> 0]

\* googleCustomSearch returns or throws; a search() awaiting it resumes
GcsSettle(c, how, out) ==
  /\ provOut' = [provOut EXCEPT ![c] = out]
  /\ searchOut' = [searchOut EXCEPT ![c] = IF how = "search" THEN SearchReturn(out) ELSE @]
  /\ pc' = [pc EXCEPT ![c] = "done"]
  /\ UNCHANGED <<currentKeyIndex, used, selections>>

\* googleCustomSearch from its entry to its first suspension
GcsCall(c, how) ==
  LET keys == getAllApiKeys(env) IN
  IF ~env.cse THEN GcsSettle(c, how, Thrown("missing_cse"))
  ELSE IF Len(keys) = 0 THEN GcsSettle(c, how, Thrown("no_keys"))
  ELSE Attempt(c, keys) /\ UNCHANGED <<provOut, searchOut>>

\* the catch block of the loop body, and what follows it
HttpFails(c, err) ==
  LET keys == getAllApiKeys(env) IN
  IF Retryable(err.status) THEN
    LET last == RecordError(lastError[c], err)
        next == i[c] + 1
    IN /\ lastError' = [lastError EXCEPT ![c] = last]
       /\ i' = [i EXCEPT ![c] = next]
       /\ IF LoopContinues(next, Len(keys))
          THEN Attempt(c, keys) /\ UNCHANGED <<provOut, searchOut>>
          ELSE GcsSettle(c, entry[c], ExhaustedError(last))
  ELSE
    /\ GcsSettle(c, entry[c], ProviderError(err))
    /\ UNCHANGED <<lastError, i>>

----------------------------------------------------------------------------
(* search/index.ts *)

SerperFirst(e) ==
  IF e.serper THEN "serper"
  ELSE IF e.keys[1] # "unset" /\ e.cse THEN "google"
  ELSE IF e.searchapi THEN "searchapi"
  ELSE "raw"
\* the provider search() calls: the first whose configuration is present
ChooseProvider(e) ==
  IF e.keys[1] # "unset" /\ e.cse THEN "google"
  ELSE IF e.serper THEN "serper"
  ELSE IF e.searchapi THEN "searchapi"
  ELSE "raw"

----------------------------------------------------------------------------
(* Actions of Spec *)

\* a caller invokes search(); it runs to the chosen provider's first await
SearchStart(c) ==
  /\ pc[c] = "idle"
  /\ entry' = [entry EXCEPT ![c] = "search"]
  /\ LET p == ChooseProvider(env) IN
     /\ invoked' = [invoked EXCEPT ![c] = Append(@, p)]
     /\ IF p = "google" THEN GcsCall(c, "search")
        ELSE /\ pc' = [pc EXCEPT ![c] = "await_provider"]
             /\ UNCHANGED <<currentKeyIndex, used, selections, provOut, searchOut>>
  /\ UNCHANGED <<env, i, lastError, settled, lastOutcome, retryFails>>
  /\ UNCHANGED ctlVars

\* a caller invokes the exported googleCustomSearch() directly
DirectCall(c) ==
  /\ pc[c] = "idle"
  /\ entry' = [entry EXCEPT ![c] = "gcs"]
  /\ GcsCall(c, "gcs")
  /\ UNCHANGED <<env, invoked, i, lastError, settled, lastOutcome, retryFails>>
  /\ UNCHANGED ctlVars

\* axios.get resolves: the items are mapped and returned
HttpSucceeds(c) ==
  /\ pc[c] = "await_http"
  /\ \E n \in 0..MaxItems : GcsSettle(c, entry[c], Returned(n))
  /\ settled' = [settled EXCEPT ![c] = @ + 1]
  /\ UNCHANGED <<env, entry, invoked, i, lastError, lastOutcome, retryFails>>
  /\ UNCHANGED ctlVars

\* axios.get rejects: the catch block rotates to the next key or throws
HttpError(c) ==
  /\ pc[c] = "await_http"
  /\ \E err \in Errors :
       /\ HttpFails(c, err)
       /\ lastOutcome' = [lastOutcome EXCEPT ![c] = err]
       /\ retryFails' = [retryFails EXCEPT ![c] =
                           IF err.status \in {400, 403, 429} THEN @ + 1 ELSE @]
  /\ settled' = [settled EXCEPT ![c] = @ + 1]
  /\ UNCHANGED <<env, entry, invoked>>
  /\ UNCHANGED ctlVars

\* serper_search, searchapi_search or googleSearch settles; search() resumes
ProviderSettles(c) ==
  /\ pc[c] = "await_provider"
  /\ \E out \in {Returned(n) : n \in 0..MaxItems} \cup {Thrown("provider_failed")} :
       /\ provOut' = [provOut EXCEPT ![c] = out]
       /\ searchOut' = [searchOut EXCEPT ![c] = SearchReturn(out)]
  /\ pc' = [pc EXCEPT ![c] = "done"]
  /\ UNCHANGED <<env, currentKeyIndex, entry, invoked, i, lastError, used, settled,
                 lastOutcome, retryFails, selections>>
  /\ UNCHANGED ctlVars

Envs == [keys : [1..KeySlots -> SlotValues], cse : BOOLEAN,
         serper : BOOLEAN, searchapi : BOOLEAN]

NoRequest ==
  [ver |-> "none", limit |-> 0, forced |-> FALSE, scrape |-> FALSE, query |-> FALSE]
NoResponse == [status |-> 0, success |-> "none", data |-> <<>>, note |-> ""]

\* the controller's variables before any request
CtlIdle ==
  /\ numRequested = 0
  /\ serp = <<>>
  /\ tasks = <<>>
  /\ resp = NoResponse
  /\ responses = 0
  /\ billUnits = 0
  /\ billState = "none"

\* the search module's variables after module load
SearchIdle ==
  /\ currentKeyIndex = 0
  /\ pc = [c \in Calls |-> "idle"]
  /\ entry = [c \in Calls |-> "none"]
  /\ invoked = [c \in Calls |-> <<>>]
  /\ i = [c \in Calls |-> 0]
  /\ lastError = [c \in Calls |-> NullError]
  /\ provOut = [c \in Calls |-> Pending]
  /\ searchOut = [c \in Calls |-> [kind |-> "pending", n |-> 0]]
  /\ used = [c \in Calls |-> <<>>]
  /\ settled = [c \in Calls |-> 0]
  /\ lastOutcome = [c \in Calls |-> NullError]
  /\ retryFails = [c \in Calls |-> 0]
  /\ selections = <<>>

Init ==
  /\ env \in Envs
  /\ SearchIdle
  /\ req = NoRequest
  /\ cpc = "idle"
  /\ CtlIdle

Next ==
  \E c \in Calls :
    \/ SearchStart(c)
    \/ DirectCall(c)
    \/ HttpSucceeds(c)
    \/ HttpError(c)
    \/ ProviderSettles(c)

Spec == Init /\ [][Next]_vars

----------------------------------------------------------------------------
(* controllers/v1/search.ts and controllers/v0/search.ts: shared pieces *)

Min(a, b) == IF a < b THEN a ELSE b

\* Math.floor(limit * 1.5)
NumResultsBufferCeil(limit) == (3 * limit + 1) \div 2
NumResultsBuffer(limit) == (3 * limit) \div 2

\* Math.min(searchOptions.limit ?? 7, 10), forced to 1 for one team
V0NumResults(limit, forced) == IF forced THEN 1 ELSE Min(limit, 10)

\* list.slice(0, limit) when the list is longer than limit
Slice(list, limit) == IF Len(list) > limit THEN SubSeq(list, 1, limit) ELSE list

\* isUrlBlocked(r.url)
isUrlBlocked(r) == r.blocked

\* res.filter((r) => !isUrlBlocked(r.url))
KeepAll(list) == list
FilterBlocked(list) == SelectSeq(list, LAMBDA r : ~isUrlBlocked(r))

\* what search() can return when asked for n results: up to n results, each
\* named by its place in the provider's list and blocklisted or not
SerpLists(n) ==
  UNION {{[k \in 1..m |-> [id |-> k, blocked |-> f[k]]] : f \in [1..m -> BOOLEAN]} :
         m \in 0..n}

BlockedMessage == "Could not scrape url: blocklisted"
\* a failure text a scrape job can carry that holds the same phrase
EngineMessage == "Could not scrape url: engine failed"
\* how waitForJob can settle: a Document with or without content, or a rejection
WaitFailures == {"Job wait timeout", "Job failed", EngineMessage}
WaitOutcomes == {"content", "empty"} \cup WaitFailures
\* errorMessage.includes("Could not scrape url")
IncludesCouldNotScrape(msg) == msg \in {BlockedMessage, EngineMessage}
\* the catch block's choice of statusCode
ErrorStatusExact(msg) == IF msg = "Could not scrape url" THEN 403 ELSE 0
ErrorStatus(msg) == IF IncludesCouldNotScrape(msg) THEN 403 ELSE 0
\* title tells where a Document's title and description come from: "none"
\* (it has neither), "serp" (the search result) or "scrape" (the scraped page)
NoDoc == [kind |-> "none", statusCode |-> 0, error |-> "", title |-> "none"]
\* the Document waitForJob resolves with; kind tells whether it has content,
\* own whether it carries a title and description of its own
ScrapedDoc(kind, own) ==
  [kind |-> kind, statusCode |-> 200, error |-> "",
   title |-> IF own THEN "scrape" ELSE "none"]
\* { title: searchResult.title, description: searchResult.description, ...doc }:
\* the properties spread last win
MergeSerp(doc) == [doc EXCEPT !.title = IF @ = "none" THEN "serp" ELSE @]
\* the minimal Document of the catch block of scrapeSearchResult
ErrorDoc(msg) ==
  [kind |-> "error", statusCode |-> ErrorStatus(msg), error |-> msg,
   title |-> "serp"]

NewTask(r, st) ==
  [id |-> r.id, blocked |-> r.blocked, st |-> st, doc |-> NoDoc,
   addCalled |-> FALSE, admitted |-> FALSE, waitCalled |-> FALSE,
   removeCalled |-> FALSE, addOut |-> "", waitOut |-> "", removeOut |-> "",
   overtook |-> FALSE]

\* the items of a response's data
SerpData(list) ==
  [k \in 1..Len(list) |-> [id |-> list[k].id, kind |-> "serp", title |-> "serp"]]
DocDataReversed(ts) ==
  [k \in 1..Len(ts) |-> [id |-> ts[Len(ts) + 1 - k].id,
                          kind |-> ts[Len(ts) + 1 - k].doc.kind,
                          title |-> ts[Len(ts) + 1 - k].doc.title]]
DocData(ts) ==
  [k \in 1..Len(ts) |-> [id |-> ts[k].id, kind |-> ts[k].doc.kind,
                          title |-> ts[k].doc.title]]
HasContent(item) == item.kind = "content"

Response(status, success, data, note) ==
  [status |-> status, success |-> success, data |-> data, note |-> note]

Respond(r) ==
  /\ resp' = r
  /\ responses' = responses + 1
  /\ cpc' = "responded"

\* billTeam(...).catch(...): dispatched, not awaited
Bill(n) ==
  /\ billUnits' = n
  /\ billState' = "pending"

AllIn(ts, st) == \A k \in DOMAIN ts : ts[k].st = st

\* jobDatas.map((x) => waitForJob(x.opts.jobId, 60000))
StartWaits(ts) == [k \in DOMAIN ts |-> [ts[k] EXCEPT !.st = "wait", !.waitCalled = TRUE]]
\* jobDatas.map((x) => sq.remove(x.opts.jobId))
StartRemoves(ts) ==
  [k \in DOMAIN ts |-> [ts[k] EXCEPT !.st = "remove", !.removeCalled = TRUE]]

----------------------------------------------------------------------------
(* controllers/v1/search.ts *)

\* scrapeSearchResult after getJobPriority: the blocklist check, then addScrapeJob
ScrapeBeginUnchecked(task) == [task EXCEPT !.st = "add", !.addCalled = TRUE]
\* the catch block of scrapeSearchResult: the promise resolves with ErrorDoc
Rethrow(task, msg) == [task EXCEPT !.st = "rejected"]
CatchScrapeError(task, msg) == [task EXCEPT !.st = "done", !.doc = ErrorDoc(msg)]

ScrapeBegin(task) ==
  IF isUrlBlocked(task)
  THEN CatchScrapeError(task, BlockedMessage)
  ELSE [task EXCEPT !.st = "add", !.addCalled = TRUE]

\* a waitForJob settles while one of an earlier result is still to settle
V1Overtakes(ts, t) == \E u \in 1..(t - 1) : ts[u].st \in {"prio", "add", "wait"}
V0Overtakes(ts, t) == \E u \in 1..(t - 1) : ts[u].st = "wait"

\* the controller after Promise.all(scrapePromises) resolved
V1FinishFailsWhenEmpty(ts) ==
  LET docs == DocData(ts)
      filteredDocs == SelectSeq(docs, HasContent)
  IN /\ Bill(Len(docs))
     /\ IF Len(filteredDocs) = 0
        THEN Respond(Response(500, "false", <<>>, "error"))
        ELSE Respond(Response(200, "true", filteredDocs, ""))
V1FinishAllOrNothing(ts) ==
  LET docs == DocData(ts)
      filteredDocs == SelectSeq(docs, HasContent)
  IN /\ Bill(Len(docs))
     /\ IF Len(filteredDocs) < Len(docs)
        THEN Respond(Response(500, "false", <<>>, "error"))
        ELSE Respond(Response(200, "true", filteredDocs, ""))
V1Finish(ts) ==
  LET docs == DocData(ts)
      filteredDocs == SelectSeq(docs, HasContent)
  IN /\ Bill(Len(docs))
     /\ IF Len(filteredDocs) = 0
        THEN Respond(Response(200, "true", docs, "No content found in search results"))
        ELSE Respond(Response(200, "true", filteredDocs, ""))

\* one scrapeSearchResult promise moves on; Promise.all rejects with the first
\* rejection and resolves when every promise has resolved
V1Advance(t, nt) ==
  LET ts == [tasks EXCEPT ![t] = nt] IN
  /\ tasks' = ts
  /\ IF cpc # "gather"
     THEN UNCHANGED <<cpc, resp, responses, billUnits, billState>>
     ELSE IF nt.st = "rejected"
     THEN /\ Respond(Response(500, "false", <<>>, "error"))
          /\ UNCHANGED <<billUnits, billState>>
     ELSE IF AllIn(ts, "done") THEN V1Finish(ts)
     ELSE UNCHANGED <<cpc, resp, responses, billUnits, billState>>
  /\ UNCHANGED <<req, numRequested, serp>>
  /\ UNCHANGED searchVars

\* !req.body.scrapeOptions.formats || req.body.scrapeOptions.formats.length === 0
NoFormats(r) == ~r.scrape

\* searchController to its await of search()
V1Call ==
  /\ req.ver = "v1"
  /\ cpc = "start"
  /\ \E parsed \in BOOLEAN :
       IF parsed
       THEN /\ numRequested' = NumResultsBuffer(req.limit)
            /\ cpc' = "search"
            /\ UNCHANGED <<resp, responses>>
       ELSE /\ Respond(Response(500, "false", <<>>, "error"))
            /\ UNCHANGED numRequested
  /\ UNCHANGED <<req, serp, tasks, billUnits, billState>>
  /\ UNCHANGED searchVars

\* search() returned: slice, then the empty, SERP-only or scraping path
V1SearchReturns ==
  /\ req.ver = "v1"
  /\ cpc = "search"
  /\ \E rs \in SerpLists(numRequested) :
       LET searchResults == Slice(rs, req.limit) IN
       /\ serp' = rs
       /\ IF Len(searchResults) = 0
          THEN /\ Respond(Response(200, "true", <<>>, "No search results found"))
               /\ UNCHANGED <<tasks, billUnits, billState>>
          ELSE IF NoFormats(req)
          THEN /\ Bill(Len(searchResults))
               /\ Respond(Response(200, "true", SerpData(searchResults), ""))
               /\ UNCHANGED tasks
          ELSE /\ tasks' = [k \in 1..Len(searchResults) |->
                              NewTask(searchResults[k], "prio")]
               /\ cpc' = "gather"
               /\ UNCHANGED <<resp, responses, billUnits, billState>>
  /\ UNCHANGED <<req, numRequested>>
  /\ UNCHANGED searchVars

\* getJobPriority settles for one result
V1TaskPriority(t) ==
  /\ req.ver = "v1"
  /\ t \in DOMAIN tasks
  /\ tasks[t].st = "prio"
  /\ \E ok \in BOOLEAN :
       V1Advance(t, IF ok THEN ScrapeBegin(tasks[t])
                    ELSE [tasks[t] EXCEPT !.st = "rejected"])

\* addScrapeJob settles for one result
V1TaskAdded(t) ==
  /\ req.ver = "v1"
  /\ t \in DOMAIN tasks
  /\ tasks[t].st = "add"
  /\ \E ok \in BOOLEAN :
       LET tk == [tasks[t] EXCEPT !.addOut = IF ok THEN "ok" ELSE "failed"] IN
       V1Advance(t, IF ok
                    THEN [tk EXCEPT !.st = "wait", !.admitted = TRUE,
                                    !.waitCalled = TRUE]
                    ELSE CatchScrapeError(tk, "Queue unavailable"))

\* waitForJob settles for one result
V1TaskWaited(t) ==
  /\ req.ver = "v1"
  /\ t \in DOMAIN tasks
  /\ tasks[t].st = "wait"
  /\ \E out \in WaitOutcomes, own \in BOOLEAN :
       LET tk == [tasks[t] EXCEPT !.waitOut = out,
                                  !.overtook = V1Overtakes(tasks, t)] IN
       /\ own => out = "content"
       /\ V1Advance(t, IF out \notin WaitFailures
                    THEN [tk EXCEPT !.st = "remove", !.removeCalled = TRUE,
                                    !.doc = ScrapedDoc(out, own)]
                    ELSE CatchScrapeError(tk, out))

\* getScrapeQueue().remove settles for one result
V1TaskRemoved(t) ==
  /\ req.ver = "v1"
  /\ t \in DOMAIN tasks
  /\ tasks[t].st = "remove"
  /\ \E ok \in BOOLEAN :
       LET tk == [tasks[t] EXCEPT !.removeOut = IF ok THEN "ok" ELSE "failed"] IN
       V1Advance(t, IF ok THEN [tk EXCEPT !.st = "done", !.doc = MergeSerp(@)]
                    ELSE CatchScrapeError(tk, "Remove failed"))

----------------------------------------------------------------------------
(* controllers/v0/search.ts *)

\* res.status(..).json({ error }) of the v0 searchController: no success field
V0ErrorWithSuccess(status) == Response(status, "false", <<>>, "error")
V0Error(status) == Response(status, "absent", <<>>, "error")

V0Respond(r) ==
  /\ Respond(r)
  /\ UNCHANGED <<billUnits, billState>>

\* searchController to its await of authenticateUser
V0Call ==
  /\ req.ver = "v0"
  /\ cpc = "start"
  /\ cpc' = "auth"
  /\ UNCHANGED <<req, numRequested, serp, tasks, resp, responses, billUnits, billState>>
  /\ UNCHANGED searchVars

\* authenticateUser settles; checkTeamCredits is awaited next
V0Auth ==
  /\ req.ver = "v0"
  /\ cpc = "auth"
  /\ \E out \in {"ok", "denied", "throws"} :
       IF out = "ok" THEN cpc' = "credits" /\ UNCHANGED <<resp, responses>>
       ELSE IF out = "denied" THEN Respond(V0Error(401))
       ELSE Respond(V0Error(500))
  /\ UNCHANGED <<req, numRequested, serp, tasks, billUnits, billState>>
  /\ UNCHANGED searchVars

\* checkTeamCredits settles; searchHelper runs to its await of search()
V0Credits ==
  /\ req.ver = "v0"
  /\ cpc = "credits"
  /\ \E out \in {"ok", "insufficient", "throws"} :
       IF out = "insufficient"
       THEN Respond(V0Error(402)) /\ UNCHANGED numRequested
       ELSE IF out = "throws"
       THEN Respond(V0Error(500)) /\ UNCHANGED numRequested
       ELSE IF ~req.query
       THEN /\ Respond(Response(400, "false", <<>>, "Query is required"))
            /\ UNCHANGED numRequested
       ELSE /\ numRequested' = NumResultsBuffer(V0NumResults(req.limit, req.forced))
            /\ cpc' = "search"
            /\ UNCHANGED <<resp, responses>>
  /\ UNCHANGED <<req, serp, tasks, billUnits, billState>>
  /\ UNCHANGED searchVars

\* const justSearch = pageOptions.fetchPageContent === false
NeverJustSearch(r) == FALSE
justSearch(r) == ~r.scrape

\* search() returned: the SERP-only path, or filter, slice and getJobPriority
V0SearchReturns ==
  /\ req.ver = "v0"
  /\ cpc = "search"
  /\ \E rs \in SerpLists(numRequested) :
       /\ serp' = rs
       /\ IF justSearch(req)
          THEN /\ Bill(Len(rs))
               /\ Respond(Response(200, "true", SerpData(rs), ""))
               /\ UNCHANGED tasks
          ELSE LET res == Slice(FilterBlocked(rs), V0NumResults(req.limit, req.forced))
               IN IF Len(res) = 0
                  THEN /\ V0Respond(Response(200, "true", <<>>, "No search results found"))
                       /\ UNCHANGED tasks
                  ELSE /\ tasks' = [k \in 1..Len(res) |-> NewTask(res[k], "new")]
                       /\ cpc' = "prio"
                       /\ UNCHANGED <<resp, responses, billUnits, billState>>
  /\ UNCHANGED <<req, numRequested>>
  /\ UNCHANGED searchVars

\* getJobPriority settles; the enqueue loop awaits its first addScrapeJob
V0Priority ==
  /\ req.ver = "v0"
  /\ cpc = "prio"
  /\ \E ok \in BOOLEAN :
       IF ok
       THEN /\ tasks' = [tasks EXCEPT ![1] = [@ EXCEPT !.st = "add", !.addCalled = TRUE]]
            /\ cpc' = "add"
            /\ UNCHANGED <<resp, responses>>
       ELSE /\ Respond(V0Error(500))
            /\ UNCHANGED tasks
  /\ UNCHANGED <<req, numRequested, serp, billUnits, billState>>
  /\ UNCHANGED searchVars

\* one addScrapeJob of the loop settles: the next job is enqueued, or all
\* jobs are in and every waitForJob is started
V0Added ==
  /\ req.ver = "v0"
  /\ cpc = "add"
  /\ \E k \in DOMAIN tasks :
       /\ tasks[k].st = "add"
       /\ \E ok \in BOOLEAN :
            LET in == [tasks EXCEPT ![k] = [@ EXCEPT !.st = "added", !.admitted = TRUE,
                                                     !.addOut = "ok"]] IN
            IF ~ok
            THEN /\ tasks' = [tasks EXCEPT ![k] = [@ EXCEPT !.st = "addfail",
                                                            !.addOut = "failed"]]
                 /\ Respond(V0Error(500))
            ELSE IF k < Len(tasks)
            THEN /\ tasks' = [in EXCEPT ![k + 1] = [@ EXCEPT !.st = "add", !.addCalled = TRUE]]
                 /\ UNCHANGED <<cpc, resp, responses>>
            ELSE /\ tasks' = StartWaits(in)
                 /\ cpc' = "wait"
                 /\ UNCHANGED <<resp, responses>>
  /\ UNCHANGED <<req, numRequested, serp, billUnits, billState>>
  /\ UNCHANGED searchVars

\* one waitForJob settles; Promise.all rejects with the first rejection, and
\* when all resolved every remove is started
V0Waited(t) ==
  /\ req.ver = "v0"
  /\ t \in DOMAIN tasks
  /\ tasks[t].st = "wait"
  /\ \E out \in WaitOutcomes, own \in BOOLEAN :
       /\ own => out = "content"
       /\ LET ok == out \notin WaitFailures
              tk == [tasks[t] EXCEPT !.waitOut = out,
                                     !.overtook = V0Overtakes(tasks, t)]
              ts == [tasks EXCEPT ![t] =
                       IF ok THEN [tk EXCEPT !.st = "waited",
                                             !.doc = ScrapedDoc(out, own)]
                       ELSE [tk EXCEPT !.st = "waitfail"]]
          IN IF cpc # "wait"
             THEN tasks' = ts /\ UNCHANGED <<cpc, resp, responses>>
             ELSE IF ~ok
             THEN /\ tasks' = ts
                  /\ Respond(V0Error(IF out = "Job wait timeout" THEN 408 ELSE 500))
             ELSE IF AllIn(ts, "waited")
             THEN /\ tasks' = StartRemoves(ts)
                  /\ cpc' = "remove"
                  /\ UNCHANGED <<resp, responses>>
             ELSE tasks' = ts /\ UNCHANGED <<cpc, resp, responses>>
  /\ UNCHANGED <<req, numRequested, serp, billUnits, billState>>
  /\ UNCHANGED searchVars

\* the result searchHelper returns after the removes
V0Finish(ts) ==
  LET docs == DocData(ts)
      filteredDocs == SelectSeq(docs, HasContent)
  IN IF Len(filteredDocs) = 0
     THEN Respond(Response(200, "true", docs, "No page found"))
     ELSE Respond(Response(200, "true", filteredDocs, ""))

\* one sq.remove settles
V0Removed(t) ==
  /\ req.ver = "v0"
  /\ t \in DOMAIN tasks
  /\ tasks[t].st = "remove"
  /\ \E ok \in BOOLEAN :
       LET ts == [tasks EXCEPT ![t] =
                    [@ EXCEPT !.st = IF ok THEN "done" ELSE "removefail",
                              !.removeOut = IF ok THEN "ok" ELSE "failed"]]
       IN /\ tasks' = ts
          /\ IF cpc # "remove" THEN UNCHANGED <<cpc, resp, responses>>
             ELSE IF ~ok THEN Respond(V0Error(500))
             ELSE IF AllIn(ts, "done") THEN V0Finish(ts)
             ELSE UNCHANGED <<cpc, resp, responses>>
  /\ UNCHANGED <<req, numRequested, serp, billUnits, billState>>
  /\ UNCHANGED searchVars

\* the billTeam promise settles; a rejection is only logged
BillSettlesAlters ==
  /\ billState = "pending"
  /\ \E ok \in BOOLEAN :
       /\ billState' = IF ok THEN "ok" ELSE "failed"
       /\ resp' = IF ok THEN resp ELSE Response(500, "false", <<>>, "error")
  /\ UNCHANGED <<req, cpc, numRequested, serp, tasks, responses, billUnits>>
  /\ UNCHANGED searchVars
BillSettles ==
  /\ billState = "pending"
  /\ \E ok \in BOOLEAN : billState' = IF ok THEN "ok" ELSE "failed"
  /\ UNCHANGED <<req, cpc, numRequested, serp, tasks, resp, responses, billUnits>>
  /\ UNCHANGED searchVars

Requests ==
  {r \in [ver : {"v0", "v1"}, limit : 1..MaxLimit, forced : BOOLEAN,
          scrape : BOOLEAN, query : BOOLEAN] :
     r.ver = "v1" => (~r.forced /\ r.query)}

Unconfigured ==
  [keys |-> [j \in 1..KeySlots |-> "unset"], cse |-> FALSE,
   serper |-> FALSE, searchapi |-> FALSE]

InitCtl ==
  /\ env = Unconfigured
  /\ SearchIdle
  /\ req \in Requests
  /\ cpc = "start"
  /\ CtlIdle

NextCtl ==
  \/ V1Call
  \/ V1SearchReturns
  \/ \E t \in 1..MaxLimit : V1TaskPriority(t)
  \/ \E t \in 1..MaxLimit : V1TaskAdded(t)
  \/ \E t \in 1..MaxLimit : V1TaskWaited(t)
  \/ \E t \in 1..MaxLimit : V1TaskRemoved(t)
  \/ V0Call
  \/ V0Auth
  \/ V0Credits
  \/ V0SearchReturns
  \/ V0Priority
  \/ V0Added
  \/ \E t \in 1..MaxLimit : V0Waited(t)
  \/ \E t \in 1..MaxLimit : V0Removed(t)
  \/ BillSettles

SpecCtl == InitCtl /\ [][NextCtl]_vars

----------------------------------------------------------------------------
(* Properties of Spec: key rotation and provider resolution *)

PoolKeys == getAllApiKeys(env)
PoolSize == Len(PoolKeys)
GcsRan(c) == Len(used[c]) > 0

\* C1: within one googleCustomSearch call on a pool of at least two keys, no
\* key is sent upstream for two attempts of that call, whatever the
\* interleaving of the calls sharing currentKeyIndex.
C1_NoKeyReuseInCall ==
  \A c \in Calls :
    PoolSize >= 2 =>
      \A a, b \in DOMAIN used[c] : a # b => used[c][a] # used[c][b]

\* C2: one googleCustomSearch call sends at most K upstream requests, and once
\* the K-th has been answered the call has ended, by returning a result list
\* or by raising an error.
C2_AtMostKRequests ==
  \A c \in Calls :
    /\ Len(used[c]) <= PoolSize
    /\ settled[c] <= PoolSize
    /\ (PoolSize >= 1 /\ settled[c] = PoolSize) =>
         /\ pc[c] = "done"
         /\ provOut[c].kind \in {"returned", "exhausted", "provider_error"}

C2_Witness ==
  \E c \in Calls :
    /\ PoolSize >= 2
    /\ settled[c] = PoolSize
    /\ provOut[c].kind = "returned"
    /\ retryFails[c] = PoolSize - 1

\* C3: when all K attempts of a call failed with a retryable status, the call
\* fails with the 'all keys exhausted' error, and that error carries the
\* status and the message of the last attempt made.
C3_ExhaustedCarriesLast ==
  \A c \in Calls :
    /\ (PoolSize >= 1 /\ retryFails[c] = PoolSize) => provOut[c].kind = "exhausted"
    /\ provOut[c].kind = "exhausted" =>
         /\ retryFails[c] = PoolSize
         /\ provOut[c].status = lastOutcome[c].status
         /\ provOut[c].message = lastOutcome[c].message

C3_Witness ==
  \E c \in Calls :
    /\ PoolSize >= 2
    /\ provOut[c].kind = "exhausted"
    /\ provOut[c].status = 429
    /\ retryFails[c] = PoolSize

\* C4: an attempt failing with a status other than 400, 403 or 429 (or with no
\* status) ends the call at once with a provider error: the call takes no
\* further key and sends no further request.
C4_NonRetryableAborts ==
  \A c \in Calls :
    (lastOutcome[c] # NullError /\ lastOutcome[c].status \notin {400, 403, 429}) =>
      /\ pc[c] = "done"
      /\ provOut[c].kind = "provider_error"
      /\ provOut[c].message = lastOutcome[c].message
      /\ Len(used[c]) = settled[c]

C4_Witness ==
  \E c \in Calls :
    /\ provOut[c].kind = "provider_error"
    /\ lastOutcome[c].status = NoStatus
    /\ 1 <= Len(used[c])
    /\ Len(used[c]) < PoolSize

\* C5: for a fixed pool of K keys, the n-th invocation of getNextApiKey over
\* all calls (counting from 0) returns key number n mod K, however the calls
\* interleave.
C5_CyclicSelection ==
  \A n \in DOMAIN selections :
    selections[n] = PoolKeys[((n - 1) % PoolSize) + 1]

C5_Witness ==
  /\ PoolSize >= 2
  /\ Len(selections) > PoolSize
  /\ \A c \in Calls : GcsRan(c)
  /\ \E c \in Calls : pc[c] = "await_http" /\ Len(used[c]) >= 2

\* C6: each search() call invokes exactly one provider, the first of Google
\* Custom Search (GOOGLE_API_KEY and GOOGLE_CSE_ID present), Serper, SearchAPI
\* and raw scraping whose configuration is present; when that provider fails
\* no other provider is invoked.
C6_OneProviderByPriority ==
  \A c \in Calls :
    entry[c] = "search" =>
      /\ Len(invoked[c]) = 1
      /\ (env.keys[1] # "unset" /\ env.cse) => invoked[c][1] = "google"
      /\ (~(env.keys[1] # "unset" /\ env.cse) /\ env.serper) => invoked[c][1] = "serper"
      /\ (~(env.keys[1] # "unset" /\ env.cse) /\ ~env.serper /\ env.searchapi) =>
           invoked[c][1] = "searchapi"
      /\ (~(env.keys[1] # "unset" /\ env.cse) /\ ~env.serper /\ ~env.searchapi) =>
           invoked[c][1] = "raw"

C6_Witness ==
  \E c \in Calls :
    /\ entry[c] = "search"
    /\ pc[c] = "done"
    /\ env.serper
    /\ invoked[c] = <<"google">>
    /\ provOut[c].kind = "exhausted"

\* C7: search() never propagates an error: whenever the provider it chose
\* raises, search() returns the empty result list.
C7_SearchNeverThrows ==
  \A c \in Calls :
    (entry[c] = "search" /\ pc[c] = "done") =>
      /\ searchOut[c].kind = "returned"
      /\ provOut[c].kind # "returned" => searchOut[c].n = 0
      /\ provOut[c].kind = "returned" => searchOut[c].n = provOut[c].n

C7_Witness ==
  \E c, d \in Calls :
    /\ entry[c] = "search" /\ pc[c] = "done"
    /\ provOut[c].kind = "exhausted"
    /\ searchOut[c] = [kind |-> "returned", n |-> 0]
    /\ entry[d] = "search" /\ pc[d] = "done"
    /\ provOut[d].kind = "provider_error"
    /\ searchOut[d] = [kind |-> "returned", n |-> 0]

----------------------------------------------------------------------------
(* Properties of SpecCtl: the search controllers *)

\* the limit a request is served with: v1 takes req.body.limit; v0 caps
\* searchOptions.limit at 10 and forces 1 for one team
EffectiveLimit ==
  IF req.ver = "v1" THEN req.limit
  ELSE IF req.forced THEN 1
  ELSE IF req.limit < 10 THEN req.limit ELSE 10

SearchCalled == numRequested > 0

\* C8: for every limit L >= 1 the count passed to search() as num_results is
\* exactly ceil(1.5 * L), in the v1 searchController and the v0 searchHelper.
C8_BufferIsCeil ==
  SearchCalled =>
    /\ 2 * numRequested >= 3 * EffectiveLimit
    /\ 2 * numRequested < 3 * EffectiveLimit + 2

\* C8 as amended: the count passed to search() as num_results is exactly
\* floor(1.5 * L), L being the limit the request is served with.
C8_BufferIsFloor ==
  SearchCalled =>
    /\ 2 * numRequested <= 3 * EffectiveLimit
    /\ 3 * EffectiveLimit < 2 * numRequested + 2

C8_Witness ==
  /\ cpc = "search"
  /\ req.limit = 3
  /\ EffectiveLimit = 3
  /\ numRequested = 4

\* C9: the data of a response holds at most L items, L being the limit the
\* request is served with, on every terminal path of both entry points.
C9_DataAtMostLimit ==
  cpc = "responded" => Len(resp.data) <= EffectiveLimit

\* C10: addScrapeJob is never called for a result whose URL is blocklisted,
\* in either entry point.
C10_BlockedNeverAdmitted ==
  \A t \in DOMAIN tasks :
    tasks[t].addCalled => ~serp[tasks[t].id].blocked

C10_Witness ==
  /\ req.ver = "v1"
  /\ cpc = "responded"
  /\ \E t, u \in DOMAIN tasks :
       /\ serp[tasks[t].id].blocked
       /\ tasks[t].st = "done"
       /\ ~tasks[t].addCalled
       /\ tasks[t].doc.statusCode = 403
       /\ tasks[u].admitted

\* the Document scrapeSearchResult returns for a blocklisted URL
RejectionDoc ==
  [kind |-> "error", statusCode |-> 403, error |-> BlockedMessage, title |-> "serp"]

\* the request went down the scraping path and ended with status 200
ScrapedAndOk == cpc = "responded" /\ req.scrape /\ resp.status = 200

\* C11 as stated: on the scraping path every blocklisted result (read here as
\* those among the first `limit` of the provider's list) has a rejection
\* Document (blocklist message, status 403), in v0 and in v1, and only
\* blocklisted URLs are given status 403.
C11_EveryBlockedRejected ==
  ScrapedAndOk =>
    /\ \A k \in 1..Min(Len(serp), EffectiveLimit) :
         serp[k].blocked =>
           \E t \in DOMAIN tasks : tasks[t].id = serp[k].id /\ tasks[t].doc = RejectionDoc
    /\ \A t \in DOMAIN tasks : tasks[t].doc.statusCode = 403 => tasks[t].blocked

\* C11 amended: in v1, when the request ends with 200 on the scraping path,
\* every blocklisted result among the first `limit` results has a rejection
\* Document; v0 drops blocklisted results before building tasks, so none of
\* its tasks is blocklisted and none carries 403; and 403 goes exactly to the
\* error Documents whose message contains "Could not scrape url".
C11_BlockedRejectedV1Only ==
  /\ (req.ver = "v1" /\ ScrapedAndOk) =>
       \A k \in 1..Min(Len(serp), req.limit) :
         serp[k].blocked => (tasks[k].id = serp[k].id /\ tasks[k].doc = RejectionDoc)
  /\ req.ver = "v0" =>
       \A t \in DOMAIN tasks : ~tasks[t].blocked /\ tasks[t].doc.statusCode # 403
  /\ \A t \in DOMAIN tasks :
       tasks[t].doc.statusCode = 403 <=>
         (tasks[t].doc.kind = "error" /\ IncludesCouldNotScrape(tasks[t].doc.error))

\* reached: a v1 request answered 200 whose data holds the rejection Document
\* of a blocklisted result next to the Document of a scraped one
C11_Witness ==
  /\ req.ver = "v1" /\ ScrapedAndOk
  /\ \E t, u \in DOMAIN tasks :
       /\ tasks[t].blocked /\ tasks[t].doc = RejectionDoc
       /\ tasks[u].doc.kind = "content"

\* C12: when no scraping is requested and the search returned at least one
\* result, no addScrapeJob, waitForJob or remove is called and the response
\* holds SERP items only.
C12_NoScrapeNoQueueCalls ==
  ~req.scrape =>
    /\ \A t \in DOMAIN tasks :
         ~tasks[t].addCalled /\ ~tasks[t].waitCalled /\ ~tasks[t].removeCalled
    /\ tasks = <<>>
    /\ (cpc = "responded" /\ Len(serp) >= 1) =>
         /\ resp.status = 200 /\ resp.success = "true"
         /\ Len(resp.data) >= 1
         /\ \A k \in DOMAIN resp.data : resp.data[k].kind = "serp"

\* reached: a v0 SERP-only response with two items or more
C12_Witness ==
  /\ ~req.scrape /\ cpc = "responded" /\ Len(serp) >= 2
  /\ Len(resp.data) >= 2 /\ req.ver = "v0"

\* every scrape task of the batch timed out in waitForJob
AllTimedOut ==
  tasks # <<>> /\ \A t \in DOMAIN tasks : tasks[t].waitOut = "Job wait timeout"

\* C13 as stated: if every scrape task of a batch times out in waitForJob the
\* request still ends with success true, status 200 and a non-empty warning
\* or error string, never 408 or 500, in v1 and in v0.
C13_AllTimeoutsStillSuccess ==
  (cpc = "responded" /\ AllTimedOut) =>
    (resp.status = 200 /\ resp.success = "true" /\ resp.note # "")

\* C13 amended: in v1 the request ends with 200, success true, the warning
\* and the error Documents of all its tasks as data; in v0 the first timeout
\* rejects Promise.all and the request ends with 408 and no success field.
C13_AllTimeoutsV1SuccessV0Fails ==
  /\ (req.ver = "v1" /\ cpc = "responded" /\ AllTimedOut) =>
       /\ resp.status = 200 /\ resp.success = "true"
       /\ resp.note = "No content found in search results"
       /\ Len(resp.data) = Len(tasks)
  /\ (req.ver = "v0" /\ AllTimedOut) =>
       (cpc = "responded" /\ resp.status = 408 /\ resp.success = "absent")

\* reached: a v1 batch of two tasks or more that all timed out, answered
C13_Witness ==
  /\ req.ver = "v1" /\ cpc = "responded" /\ AllTimedOut
  /\ Len(tasks) >= 2 /\ resp.status = 200

\* task t was rejected by waitForJob while its sibling u got a Document with
\* content and was removed from the queue, and no priority lookup rejected
FailsBesideContent(t, u) ==
  /\ t # u
  /\ tasks[t].waitOut \in WaitFailures
  /\ tasks[u].waitOut = "content" /\ tasks[u].removeOut # "failed"
  /\ \A k \in DOMAIN tasks : tasks[k].st # "rejected"

\* the response is a success and holds the Document with content of task u
SuccessWith(u) ==
  /\ resp.status = 200 /\ resp.success = "true"
  /\ \E k \in DOMAIN resp.data :
       resp.data[k].id = tasks[u].id /\ resp.data[k].kind = "content"

QueueCallPending(t) == tasks[t].st \in {"prio", "add", "wait", "remove"}

\* C15: for every task admitted to the scrape queue, remove(id) is called for
\* it before the request ends, whether the task completed, failed or timed
\* out, in both entry points (read here at its weakest: the response is sent
\* and no queue call of the request is pending any more).
C15_AdmittedAlwaysRemoved ==
  (cpc = "responded" /\ \A t \in DOMAIN tasks : ~QueueCallPending(t)) =>
    \A t \in DOMAIN tasks : tasks[t].admitted => tasks[t].removeCalled

\* C16: every task admitted with addScrapeJob has waitForJob called for it
\* by the time the request ends, also when the admission of a later task of
\* the same batch fails.
C16_AdmittedAlwaysAwaited ==
  cpc = "responded" =>
    \A t \in DOMAIN tasks : tasks[t].admitted => tasks[t].waitCalled

\* C17: the Documents of a response are in the relative order of their
\* results in the provider's list, whatever the order in which the scrape
\* tasks completed.
C17_DataInProviderOrder ==
  cpc = "responded" =>
    \A a, b \in DOMAIN resp.data : a < b => resp.data[a].id < resp.data[b].id

\* reached: a response with the Documents of two scraped results, the later
\* of which was delivered by waitForJob first
C17_Witness ==
  /\ cpc = "responded" /\ resp.status = 200 /\ req.scrape
  /\ \E a, b \in DOMAIN resp.data :
       /\ a < b
       /\ resp.data[a].kind = "content" /\ resp.data[b].kind = "content"
       /\ \E t \in DOMAIN tasks : tasks[t].id = resp.data[b].id /\ tasks[t].overtook

\* C18: the response is sent in the step that dispatches billTeam, without
\* waiting for it, and neither the settling of billTeam (success or failure)
\* nor anything else changes the response once it is sent.
C18_ResponseIgnoresBilling ==
  [][/\ (billState = "none" /\ billState' # "none") =>
          (billState' = "pending" /\ cpc' = "responded" /\ responses' = responses + 1)
     /\ (billState # "none" /\ billState' # billState) =>
          UNCHANGED <<resp, responses, cpc>>
     /\ cpc = "responded" => UNCHANGED <<resp, responses, cpc>>]_vars

\* reached: a scraped-path response with data, every queue call settled, whose
\* billing call has failed
C18_Witness ==
  /\ cpc = "responded" /\ resp.status = 200 /\ Len(resp.data) >= 1
  /\ billState = "failed"
  /\ req.scrape /\ \A t \in DOMAIN tasks : ~QueueCallPending(t)

\* the request ended with a final result set
FinalResultSet == cpc = "responded" /\ resp.status = 200 /\ resp.data # <<>>

\* C19: every request that ends with a final result set, fast path or
\* scraped path, dispatches a billing charge whose unit count is the number
\* of items in the data of the response, in both entry points.
C19_BilledUnitsMatchData ==
  FinalResultSet => (billState # "none" /\ billUnits = Len(resp.data))

\* addScrapeJob failed for some task of the request
AddFailed == \E t \in DOMAIN tasks : tasks[t].addOut = "failed"

\* C20 as stated: if addScrapeJob fails the request is a failure, a 5xx
\* status and not a 200 success, in v0 and in v1.
C20_AddFailureFailsRequest ==
  (cpc = "responded" /\ AddFailed) => (resp.status >= 500 /\ resp.success # "true")

\* C20 amended: in v0 the failure ends the request at once with 500; in v1
\* the catch block of scrapeSearchResult turns it into an error Document
\* with status code 0, no waitForJob follows for that task, and a request
\* whose tasks all resolved ends with 200 and success true.
C20_AddFailureV0FailsV1Document ==
  /\ (req.ver = "v0" /\ AddFailed) =>
       /\ cpc = "responded"
       /\ resp.status = 500 /\ resp.success = "absent" /\ resp.data = <<>>
  /\ req.ver = "v1" =>
       \A t \in DOMAIN tasks :
         tasks[t].addOut = "failed" =>
           /\ tasks[t].st = "done"
           /\ tasks[t].doc = [kind |-> "error", statusCode |-> 0,
                              error |-> "Queue unavailable", title |-> "serp"]
           /\ ~tasks[t].admitted /\ ~tasks[t].waitCalled
  /\ (req.ver = "v1" /\ cpc = "responded" /\ AddFailed /\ AllIn(tasks, "done")) =>
       (resp.status = 200 /\ resp.success = "true")

\* reached: a v1 response with status 200 after one addScrapeJob failed and
\* a sibling was scraped with content
C20_Witness ==
  /\ req.ver = "v1" /\ cpc = "responded" /\ resp.status = 200 /\ AddFailed
  /\ \E u \in DOMAIN tasks : tasks[u].doc.kind = "content"

\* the response carries a boolean success field
BooleanSuccess == resp.success \in {"true", "false"}

\* the status codes the two controllers can send
StatusCodes == {200, 400, 401, 402, 408, 500}

\* C21 as stated: every request to either searchController ends with exactly
\* one response, and that response carries a numeric status and a boolean
\* success field, the 402, 408 and 500 responses included.
C21_OneWellFormedResponse ==
  /\ responses <= 1
  /\ cpc = "responded" => (responses = 1 /\ resp.status \in Nat /\ BooleanSuccess)

\* C21 amended: a request has no response until it has exactly one, and it
\* is never stuck without one; the status is numeric; the v1 responses
\* always carry a boolean success, while in v0 only the results of
\* searchHelper (200 and 400) do: the v0 controller's own responses (the
\* authentication status, 402, 408, 500) carry an error field and no success.
C21_OneResponseSuccessOnlyFromHelper ==
  /\ responses <= 1
  /\ (cpc = "responded") <=> (responses = 1)
  /\ cpc # "responded" => ENABLED NextCtl
  /\ cpc = "responded" =>
       /\ resp.status \in StatusCodes
       /\ req.ver = "v1" => BooleanSuccess
       /\ req.ver = "v0" =>
            IF resp.status \in {200, 400} THEN BooleanSuccess
            ELSE resp.success = "absent"

\* reached: a v0 request answered 408 once, with a sibling's waitForJob
\* resolved after the response was sent
C21_Witness ==
  /\ req.ver = "v0" /\ cpc = "responded" /\ responses = 1
  /\ resp.status = 408 /\ resp.success = "absent"
  /\ \E t \in DOMAIN tasks : tasks[t].st = "waited"

\* C22: in the Document returned for a completed scrape, title and
\* description are those of the originating search result, also when the
\* scraped document carries a title or description of its own.
C22_SerpTitleWins ==
  (cpc = "responded" /\ resp.status = 200 /\ req.ver = "v1") =>
    \A k \in DOMAIN resp.data :
      resp.data[k].kind = "content" => resp.data[k].title = "serp"

\* the results of the provider's list that are not blocklisted
NonBlocked == {k \in DOMAIN serp : ~serp[k].blocked}

\* the tasks for which addScrapeJob was called
Enqueued == {t \in DOMAIN tasks : tasks[t].addCalled}

\* C23: the cut to the limit L comes after blocklist filtering: whenever the
\* provider's list holds at least L URLs that are not blocklisted, exactly L
\* scrape tasks are admitted, in both entry points (read here on requests
\* that end with 200 and in which no addScrapeJob failed).
C23_CutAfterFiltering ==
  (ScrapedAndOk /\ ~AddFailed /\ Cardinality(NonBlocked) >= EffectiveLimit) =>
    Cardinality(Enqueued) = EffectiveLimit

\* every waitForJob of the batch resolved, task t's with content, and the
\* remove that followed for t failed
RemoveFailedAfterContent(t) ==
  /\ \A k \in DOMAIN tasks : tasks[k].waitOut \in {"content", "empty"}
  /\ tasks[t].waitOut = "content"
  /\ tasks[t].removeOut = "failed"

\* C24: queue removal is tolerant cleanup: if a task's wait completed with a
\* scraped Document and the remove(id) that follows fails, the scraped
\* Document is still returned for that result, not an error Document and not
\* a request failure.
C24_RemoveFailureTolerated ==
  cpc = "responded" =>
    \A t \in DOMAIN tasks : RemoveFailedAfterContent(t) => SuccessWith(t)

----------------------------------------------------------------------------
(* Properties of Spec: the gate of search() against the key pool *)

\* at least one Google key slot holds a usable key and the engine id is set
GoogleConfigured == PoolSize >= 1 /\ env.cse

\* C25: search() uses the raw fallback provider only when no provider secret
\* is configured: whenever at least one Google key slot (GOOGLE_API_KEY,
\* GOOGLE_API_KEY2..10) is set together with the engine id, the raw provider
\* is not invoked and the key-rotating provider is the one used.
C25_AnyKeySlotEnablesGoogle ==
  \A c \in Calls :
    (entry[c] = "search" /\ GoogleConfigured) =>
      /\ \A k \in DOMAIN invoked[c] : invoked[c][k] # "raw"
      /\ invoked[c] = <<"google">>

====
